---- MODULE Spec2Model ----
(***************************************************************************)
(* Coffee-shop backend: settings singleton, product costing and the        *)
(* degraded mode of the document store (src/main.py, src/database.py).     *)
(*                                                                         *)
(* Units.  Money and tax rates are fixed-point integers in thousandths     *)
(* (0.1 is 100, 3.0 is 3000, 0.02 is 20); quantities are whole units.      *)
(* A quotient is kept exact as a numerator/denominator pair.               *)
(* Strings that the code parses (identifiers) are sequences of one-letter  *)
(* strings; all other strings are opaque.                                  *)
(***************************************************************************)
EXTENDS Integers, Sequences, FiniteSets, TLC

\* ------------------------------------------------------------------ bounds
\* Total number of API calls started in one behaviour.
MaxCalls == 3
\* Number of product documents the store holds at most.
MaxProducts == 2

\* ------------------------------------------------------------- identifiers
\* Length of the hexadecimal string form of a bson ObjectId.
OidLen == 24

HexDigits == <<"0", "1", "2", "3", "4", "5", "6", "7", "8", "9",
               "a", "b", "c", "d", "e", "f">>

HexUpper == <<"0", "1", "2", "3", "4", "5", "6", "7", "8", "9",
              "A", "B", "C", "D", "E", "F">>

\* Value of one character as a hexadecimal digit, -1 when it is none.
HexVal(c) ==
    IF \E i \in 1..16 : HexDigits[i] = c
    THEN (CHOOSE i \in 1..16 : HexDigits[i] = c) - 1
    ELSE IF \E i \in 1..16 : HexUpper[i] = c
    THEN (CHOOSE i \in 1..16 : HexUpper[i] = c) - 1
    ELSE -1

\* str(ObjectId): the identifier n as OidLen lowercase hexadecimal digits.
RECURSIVE HexStr(_, _)
HexStr(n, len) ==
    IF len = 0 THEN <<>>
    ELSE Append(HexStr(n \div 16, len - 1), HexDigits[(n % 16) + 1])

OidStr(n) == HexStr(n, OidLen)

\* bson.errors.InvalidId, raised by ObjectId(s).
InvalidId == -1

RECURSIVE HexNum(_)
HexNum(s) ==
    IF s = <<>> THEN 0
    ELSE HexNum(SubSeq(s, 1, Len(s) - 1)) * 16 + HexVal(s[Len(s)])

ObjectIdAnyLength(s) ==
    IF \A i \in 1..Len(s) : HexVal(s[i]) >= 0 THEN HexNum(s) ELSE InvalidId

\* ObjectId(s): a string of exactly OidLen hexadecimal digits, either case.
ObjectId(s) ==
    IF Len(s) = OidLen /\ \A i \in 1..Len(s) : HexVal(s[i]) >= 0
    THEN HexNum(s)
    ELSE InvalidId

\* Python None where a string is expected (SettingsOut.id).
PyNone == <<"None">>

\* Identifier strings a caller may send that are not store references.
TempId == <<"t", "e", "m", "p">>
ShortHexId == <<"0">>
NotHexId == [i \in 1..OidLen |-> "z"]

\* ------------------------------------------------------------------ values
\* tax_rate = 0.1, the default of get_settings.
DefaultTaxRate == 100

\* tax_rate values a caller may PUT: -0.05, 0.08.
TaxRates == {-50, 80}

Ing(name, unit, unit_cost, quantity) ==
    [name |-> name, unit |-> unit, unit_cost |-> unit_cost, quantity |-> quantity]

\* The fixed sample menu of degraded list_products.
Sample ==
    << [name |-> "Espresso", category |-> "Coffee", price |-> 3000,
        ingredients |-> << Ing("Coffee Beans", "g", 20, 18),
                           Ing("Cup", "pc", 120, 1) >>],
       [name |-> "Latte 12oz", category |-> "Coffee", price |-> 4500,
        ingredients |-> << Ing("Coffee Beans", "g", 20, 18),
                           Ing("Milk", "ml", 1, 220),
                           Ing("Cup", "pc", 120, 1) >>] >>

\* ProductIn payloads a caller may POST.  ProductIn and IngredientIn declare
\* plain floats, so every one of them passes request validation.
Payloads ==
    { [name |-> "Espresso", category |-> "Coffee", price |-> 3000,
       ingredients |-> << Ing("Coffee Beans", "g", 20, 18),
                          Ing("Cup", "pc", 120, 1) >>],
      [name |-> "Sample", category |-> "None", price |-> 0,
       ingredients |-> << Ing("Milk", "ml", 1, 500) >>],
      [name |-> "Gold Latte", category |-> "Coffee", price |-> 100,
       ingredients |-> << Ing("Cup", "pc", 120, 1),
                          Ing("Coffee Beans", "g", 20, 18) >>],
      [name |-> "Refund", category |-> "None", price |-> -1000,
       ingredients |-> << Ing("Voucher", "pc", -20, 18) >>] }

\* ----------------------------------------------------------------- costing
Or0(x) == IF x # 0 THEN x ELSE 0

\* compute_cost: sum((i.unit_cost or 0) * (i.quantity or 0) for i in ingredients)
RECURSIVE compute_cost(_)
compute_cost(ingredients) ==
    IF ingredients = <<>> THEN 0
    ELSE Or0(Head(ingredients).unit_cost) * Or0(Head(ingredients).quantity)
         + compute_cost(Tail(ingredients))

\* IngredientIn(**ing): the four declared fields, extra keys ignored.
IngredientIn(ing) == Ing(ing.name, ing.unit, ing.unit_cost, ing.quantity)

IngredientList(raw) == [i \in 1..Len(raw) |-> IngredientIn(raw[i])]

\* An exact quotient num / den; den = 0 stands for ZeroDivisionError.
Ratio(num, den) == [num |-> num, den |-> den]

margin_percent_unguarded(margin_amount, price) == Ratio(margin_amount * 100, price)

\* (margin_amount / price * 100) if price else 0
margin_percent(margin_amount, price) ==
    IF price # 0 THEN Ratio(margin_amount * 100, price) ELSE Ratio(0, 1)

\* The ProductOut built in list_products and create_product.
ProductOut(id, name, category, price, ings) ==
    LET cost == compute_cost(ings)
        margin_amount == price - cost
    IN  [id |-> id, name |-> name, category |-> category, price |-> price,
         cost |-> cost, margin_amount |-> margin_amount,
         margin_percent |-> margin_percent(margin_amount, price),
         ingredients |-> ings]

\* ------------------------------------------------------------------- store
\* find_one's result when no document matches (Python None).
NoDoc == [none |-> TRUE]

\* The filter {} of find_one({}).
AnyId == -2

Matches(doc, id) == id = AnyId \/ doc._id = id

\* collection.find_one(filter): the first matching document in natural order.
FindOne(coll, id) ==
    IF \E i \in 1..Len(coll) : Matches(coll[i], id)
    THEN coll[CHOOSE i \in 1..Len(coll) :
                  /\ Matches(coll[i], id)
                  /\ \A j \in 1..(i - 1) : ~Matches(coll[j], id)]
    ELSE NoDoc

\* create_document's stamped copy of data, as insert_one stores it.
Stamped(data, oid, t) ==
    [_id |-> oid, created_at |-> t, updated_at |-> t] @@ data

InsertOne(coll, doc) == Append(coll, doc)

UpdateOneNothing(coll, id, tax_rate) == coll

\* update_one({"_id": id}, {"$set": {"tax_rate": tax_rate}})
UpdateOne(coll, id, tax_rate) ==
    IF FindOne(coll, id) = NoDoc THEN coll
    ELSE LET k == CHOOSE i \in 1..Len(coll) :
                      /\ coll[i]._id = id
                      /\ \A j \in 1..(i - 1) : coll[j]._id # id
         IN  [coll EXCEPT ![k] = [@ EXCEPT !.tax_rate = tax_rate]]

DeleteOneFirst(coll, id) == IF coll = <<>> THEN coll ELSE Tail(coll)

\* delete_one({"_id": id}): removes the first matching document, if any.
DeleteOne(coll, id) ==
    IF FindOne(coll, id) = NoDoc THEN coll
    ELSE LET k == CHOOSE i \in 1..Len(coll) :
                      /\ coll[i]._id = id
                      /\ \A j \in 1..(i - 1) : coll[j]._id # id
         IN  SubSeq(coll, 1, k - 1) \o SubSeq(coll, k + 1, Len(coll))

\* datetime.isoformat()
IsoFormat(t) == [isoformat |-> t]

\* serialize_doc: id = str(_id), _id dropped, datetimes to isoformat.
serialize_doc(doc) ==
    IF doc = NoDoc THEN doc
    ELSE [k \in (DOMAIN doc \ {"_id"}) \cup {"id"} |->
            IF k = "id" THEN OidStr(doc._id)
            ELSE IF k \in {"created_at", "updated_at"} THEN IsoFormat(doc[k])
            ELSE doc[k]]

\* s.get("tax_rate", 0.1)
GetTaxRate(s) == IF "tax_rate" \in DOMAIN s THEN s.tax_rate ELSE DefaultTaxRate

\* SettingsOut(id=s.get("id"), tax_rate=s.get("tax_rate", 0.1))
SettingsOut(s) == [id |-> s.id, tax_rate |-> GetTaxRate(s)]

\* SettingsOut(tax_rate=...) with id left at its default None.
SettingsOutNoId(tax_rate) == [id |-> PyNone, tax_rate |-> tax_rate]

ProductOutOfDocCached(d) ==
    LET s == serialize_doc(d)
        out == ProductOut(s.id, s.name, s.category, s.price, IngredientList(s.ingredients))
    IN  [out EXCEPT !.cost = s.cost, !.margin_amount = s.price - s.cost]

\* The ProductOut of one stored document (list_products, create_product).
ProductOutOfDoc(d) ==
    LET s == serialize_doc(d)
    IN  ProductOut(s.id, s.name, s.category, s.price, IngredientList(s.ingredients))

SampleOutShifted ==
    [i \in 1..Len(Sample) |->
        ProductOut(HexStr(i, 1), Sample[i].name, Sample[i].category,
                   Sample[i].price, IngredientList(Sample[i].ingredients))]

\* list_products with db None: the sample menu, ids "0" and "1".
SampleOut ==
    [i \in 1..Len(Sample) |->
        ProductOut(HexStr(i - 1, 1), Sample[i].name, Sample[i].category,
                   Sample[i].price, IngredientList(Sample[i].ingredients))]

\* create_product's to_insert.
ToInsert(payload) ==
    LET ings == IngredientList(payload.ingredients)
    IN  [name |-> payload.name, category |-> payload.category,
         price |-> payload.price, ingredients |-> ings,
         cost |-> compute_cost(ings)]

\* A product document written by an earlier revision of the application:
\* its persisted cost (0.99) is not the cost of its ingredients (0.48).
LegacyProduct ==
    [_id |-> 0, created_at |-> 0, updated_at |-> 0,
     name |-> "House Blend", category |-> "Coffee", price |-> 3000,
     ingredients |-> << Ing("Coffee Beans", "g", 20, 18), Ing("Cup", "pc", 120, 1) >>,
     cost |-> 990]

\* ------------------------------------------------------------------- state
Callers == {"c1", "c2"}

VARIABLES
    env,          \* DATABASE_URL / DATABASE_NAME: whether each is set
    reachable,    \* whether the configured store answers (fixed per behaviour)
    collections,  \* names of the collections the store has created
    settings,     \* db["settings"], in natural order
    product,      \* db["product"], in natural order
    now,          \* logical clock: the number of store writes so far
    oids,         \* number of ObjectIds the store has handed out
    pc,           \* per caller: where its handler stands
    frame,        \* per caller: the handler's locals
    response,     \* the response sent last
    calls,        \* number of calls started
    lastPut,      \* tax_rate of the update_settings that completed last
    lastWrite     \* per settings _id: when it was created and last changed

vars == << env, reachable, collections, settings, product, now, oids,
           pc, frame, response, calls, lastPut, lastWrite >>

\* database.py: db is a handle only when both variables are set.
db == IF env.url /\ env.name THEN "Database" ELSE "None"

\* lastPut before any update_settings has completed.
NoPut == -1

\* The input of a call that takes none.
NoInput == [none |-> TRUE]

NoFrame == [input |-> NoInput, id |-> AnyId]

Respond(p, op, input, status, body) ==
    response' = [caller |-> p, op |-> op, input |-> input,
                 status |-> status, body |-> body]

\* An exception no handler catches: FastAPI answers 500.
ServerError(p, op, input) ==
    Respond(p, op, input, 500, [detail |-> "Internal Server Error"])

\* The handler returns.
Idle(p) == pc' = [pc EXCEPT ![p] = "idle"] /\ frame' = [frame EXCEPT ![p] = NoFrame]

\* The handler goes on to its next store call, keeping its locals.
Goto(p, label, input, id) ==
    /\ pc' = [pc EXCEPT ![p] = label]
    /\ frame' = [frame EXCEPT ![p] = [input |-> input, id |-> id]]

\* A caller with no call in progress starts one.
Begin(p) == pc[p] = "idle" /\ calls < MaxCalls /\ calls' = calls + 1

\* After import of database.py: the environment decides db; the store is
\* empty, or holds one product document of an earlier revision.
Init ==
    /\ env \in [url : BOOLEAN, name : BOOLEAN]
    /\ reachable \in BOOLEAN
    /\ (db = "None" => ~reachable)
    /\ settings = <<>>
    /\ product \in (IF db # "None" /\ reachable THEN {<<>>, <<LegacyProduct>>} ELSE {<<>>})
    /\ collections = (IF product = <<>> THEN {} ELSE {"product"})
    /\ now = 0
    /\ oids = 1
    /\ pc = [p \in Callers |-> "idle"]
    /\ frame = [p \in Callers |-> NoFrame]
    /\ response = [caller |-> "none", op |-> "none", input |-> NoInput, status |-> 0,
                   body |-> [none |-> TRUE]]
    /\ calls = 0
    /\ lastPut = NoPut
    /\ lastWrite = << >>

\* ---------------------------------------------------------------- settings
\* get_settings up to and including its first find_one({}).
GetSettings(p) ==
    /\ Begin(p)
    /\ UNCHANGED << env, reachable, collections, settings, product, now, oids,
                    lastPut, lastWrite >>
    /\ IF db = "None"
       THEN Respond(p, "get_settings", NoInput, 200, SettingsOutNoId(DefaultTaxRate)) /\ Idle(p)
       ELSE IF ~reachable
       THEN ServerError(p, "get_settings", NoInput) /\ Idle(p)
       ELSE LET doc == FindOne(settings, AnyId)
            IN  IF doc # NoDoc
                THEN Respond(p, "get_settings", NoInput, 200, SettingsOut(serialize_doc(doc)))
                     /\ Idle(p)
                ELSE Goto(p, "get_create", NoInput, AnyId) /\ UNCHANGED response

\* create_document(collection_name, data) as one store write.
CreateDocument(name, data) ==
    /\ now' = now + 1
    /\ oids' = oids + 1
    /\ collections' = collections \cup {name}
    /\ IF name = "settings"
       THEN /\ settings' = InsertOne(settings, Stamped(data, oids, now'))
            /\ lastWrite' = lastWrite @@ (oids :> [created |-> now', changed |-> now'])
            /\ UNCHANGED product
       ELSE /\ product' = InsertOne(product, Stamped(data, oids, now'))
            /\ UNCHANGED << settings, lastWrite >>

\* get_settings: create_document("settings", {"tax_rate": 0.1})
GetSettingsCreate(p) ==
    /\ pc[p] = "get_create"
    /\ CreateDocument("settings", [tax_rate |-> DefaultTaxRate])
    /\ Goto(p, "get_find", NoInput, AnyId)
    /\ UNCHANGED << env, reachable, response, calls, lastPut >>

\* get_settings: the second find_one({}) and the return.
GetSettingsFind(p) ==
    /\ pc[p] = "get_find"
    /\ LET doc == FindOne(settings, AnyId)
       IN  IF doc = NoDoc
           THEN ServerError(p, "get_settings", NoInput)
           ELSE Respond(p, "get_settings", NoInput, 200, SettingsOut(serialize_doc(doc)))
    /\ Idle(p)
    /\ UNCHANGED << env, reachable, collections, settings, product, now, oids,
                    calls, lastPut, lastWrite >>

\* update_settings up to and including its find_one({}).
UpdateSettings(p, tax_rate) ==
    /\ Begin(p)
    /\ UNCHANGED << env, reachable, collections, settings, product, now, oids,
                    lastWrite >>
    /\ IF db = "None"
       THEN /\ Respond(p, "update_settings", [tax_rate |-> tax_rate], 200,
                       SettingsOutNoId(tax_rate))
            /\ Idle(p)
            /\ lastPut' = tax_rate
       ELSE IF ~reachable
       THEN ServerError(p, "update_settings", [tax_rate |-> tax_rate]) /\ Idle(p) /\ UNCHANGED lastPut
       ELSE LET existing == FindOne(settings, AnyId)
            IN  /\ IF existing # NoDoc
                   THEN Goto(p, "put_update", [tax_rate |-> tax_rate], existing._id)
                   ELSE Goto(p, "put_create", [tax_rate |-> tax_rate], AnyId)
                /\ UNCHANGED << response, lastPut >>

\* update_settings: update_one({"_id": existing["_id"]}, {"$set": {"tax_rate": ...}})
UpdateSettingsUpdate(p) ==
    /\ pc[p] = "put_update"
    /\ settings' = UpdateOne(settings, frame[p].id, frame[p].input.tax_rate)
    /\ now' = now + 1
    /\ lastWrite' = IF settings' # settings
                    THEN [lastWrite EXCEPT ![frame[p].id].changed = now']
                    ELSE lastWrite
    /\ Goto(p, "put_find_id", frame[p].input, frame[p].id)
    /\ UNCHANGED << env, reachable, collections, product, oids, response, calls, lastPut >>

\* update_settings: create_document("settings", {"tax_rate": payload.tax_rate})
UpdateSettingsCreate(p) ==
    /\ pc[p] = "put_create"
    /\ CreateDocument("settings", [tax_rate |-> frame[p].input.tax_rate])
    /\ Goto(p, "put_find", frame[p].input, AnyId)
    /\ UNCHANGED << env, reachable, response, calls, lastPut >>

\* update_settings: the find_one after the write, and the return.
UpdateSettingsFind(p) ==
    /\ pc[p] \in {"put_find_id", "put_find"}
    /\ LET doc == FindOne(settings, frame[p].id)
       IN  IF doc = NoDoc
           THEN ServerError(p, "update_settings", frame[p].input) /\ UNCHANGED lastPut
           ELSE /\ Respond(p, "update_settings", frame[p].input, 200,
                           SettingsOut(serialize_doc(doc)))
                /\ lastPut' = frame[p].input.tax_rate
    /\ Idle(p)
    /\ UNCHANGED << env, reachable, collections, settings, product, now, oids,
                    calls, lastWrite >>

\* ---------------------------------------------------------------- products
\* list_products: one get_documents("product") and the costing of each item.
ListProducts(p) ==
    /\ Begin(p)
    /\ IF db = "None"
       THEN Respond(p, "list_products", NoInput, 200, [items |-> SampleOut])
       ELSE IF ~reachable
       THEN ServerError(p, "list_products", NoInput)
       ELSE Respond(p, "list_products", NoInput, 200,
                    [items |-> [i \in 1..Len(product) |-> ProductOutOfDoc(product[i])]])
    /\ Idle(p)
    /\ UNCHANGED << env, reachable, collections, settings, product, now, oids,
                    lastPut, lastWrite >>

\* create_product up to and including create_document("product", to_insert).
CreateProduct(p, payload) ==
    /\ Begin(p)
    /\ db # "None" /\ reachable => Len(product) < MaxProducts
    /\ UNCHANGED << env, reachable, lastPut >>
    /\ IF db = "None"
       THEN /\ Respond(p, "create_product", payload, 200,
                       ProductOut(TempId, payload.name, payload.category, payload.price,
                                  IngredientList(payload.ingredients)))
            /\ Idle(p)
            /\ UNCHANGED << collections, settings, product, now, oids, lastWrite >>
       ELSE IF ~reachable
       THEN /\ ServerError(p, "create_product", payload)
            /\ Idle(p)
            /\ UNCHANGED << collections, settings, product, now, oids, lastWrite >>
       ELSE /\ CreateDocument("product", ToInsert(payload))
            /\ Goto(p, "post_find", payload, ObjectId(OidStr(oids)))
            /\ UNCHANGED response

\* create_product: find_one({"_id": ObjectId(_id)}) and the return.
CreateProductFind(p) ==
    /\ pc[p] = "post_find"
    /\ LET d == FindOne(product, frame[p].id)
       IN  IF d = NoDoc
           THEN ServerError(p, "create_product", frame[p].input)
           ELSE Respond(p, "create_product", frame[p].input, 200, ProductOutOfDoc(d))
    /\ Idle(p)
    /\ UNCHANGED << env, reachable, collections, settings, product, now, oids,
                    calls, lastPut, lastWrite >>

\* Identifier strings a caller may send to delete_product.
DeleteIds == {OidStr(n) : n \in 0..MaxProducts} \cup {TempId, ShortHexId, NotHexId}

\* delete_product, whole: ObjectId(product_id), delete_one, the except clause.
DeleteProduct(p, product_id) ==
    /\ Begin(p)
    /\ UNCHANGED << env, reachable, collections, settings, oids, lastPut, lastWrite >>
    /\ Idle(p)
    /\ IF db = "None"
       THEN /\ Respond(p, "delete_product", [product_id |-> product_id], 200, [ok |-> TRUE])
            /\ UNCHANGED << product, now >>
       ELSE IF ObjectId(product_id) = InvalidId
       THEN /\ Respond(p, "delete_product", [product_id |-> product_id], 400,
                    [detail |-> "InvalidId"])
            /\ UNCHANGED << product, now >>
       ELSE IF ~reachable
       THEN /\ Respond(p, "delete_product", [product_id |-> product_id], 400,
                    [detail |-> "ServerSelectionTimeoutError"])
            /\ UNCHANGED << product, now >>
       ELSE /\ product' = DeleteOne(product, ObjectId(product_id))
            /\ now' = now + 1
            /\ Respond(p, "delete_product", [product_id |-> product_id], 200, [ok |-> TRUE])

\* ------------------------------------------------------------- diagnostics
\* test_database: never raises; a failing list_collection_names is reported.
TestDatabase(p) ==
    /\ Begin(p)
    /\ Respond(p, "test_database", NoInput, 200,
               [backend |-> "Running",
                database |-> IF db = "None" THEN "Not Available"
                             ELSE IF ~reachable THEN "Error"
                             ELSE "Connected & Working",
                database_url |-> IF env.url THEN "Set" ELSE "Not Set",
                database_name |-> IF env.name THEN "Set" ELSE "Not Set",
                collections |-> IF db # "None" /\ reachable THEN collections ELSE {}])
    /\ Idle(p)
    /\ UNCHANGED << env, reachable, collections, settings, product, now, oids,
                    lastPut, lastWrite >>

\* ----------------------------------------------------------- specification
\* A caller starts a call.
Call(p) ==
    \/ GetSettings(p)
    \/ \E tax_rate \in TaxRates : UpdateSettings(p, tax_rate)
    \/ ListProducts(p)
    \/ \E payload \in Payloads : CreateProduct(p, payload)
    \/ \E product_id \in DeleteIds : DeleteProduct(p, product_id)
    \/ TestDatabase(p)

\* A call in progress makes its next store call.
Step(p) ==
    \/ GetSettingsCreate(p)
    \/ GetSettingsFind(p)
    \/ UpdateSettingsUpdate(p)
    \/ UpdateSettingsCreate(p)
    \/ UpdateSettingsFind(p)
    \/ CreateProductFind(p)

Next == \E p \in Callers : Call(p) \/ Step(p)

\* Any number of callers, their store calls interleaved.
Spec == Init /\ [][Next]_vars

Quiet == \A p \in Callers : pc[p] = "idle"

NextSerial == \E p \in Callers : (Quiet /\ Call(p)) \/ Step(p)

\* Calls that do not overlap: a call starts only when none is in progress.
SpecSerial == Init /\ [][NextSerial]_vars

\* ------------------------------------------------------------------ claims
\* Connected mode: a store is configured and answers.
Connected == db # "None" /\ reachable

\* C1: in connected mode, under any interleaving of get_settings and
\* update_settings, the settings collection holds at most one document, and
\* exactly one once a get_settings has completed (settings documents are never
\* removed, so "exactly one at completion" and "at most one always" state it).
C1_SettingsSingleton ==
    Connected =>
        /\ Len(settings) <= 1
        /\ (response.op = "get_settings" => Len(settings) = 1)

\* C2: with calls that do not overlap, in connected mode, get_settings
\* succeeds and returns the tax_rate of the update_settings that completed
\* last, or 0.1 when none has; and a get_settings that found the collection
\* empty returns 0.1.
C2_SerialReadsLastPut ==
    /\ [](Connected /\ response.op = "get_settings" =>
            /\ response.status = 200
            /\ response.body.tax_rate =
                   (IF lastPut = NoPut THEN DefaultTaxRate ELSE lastPut))
    /\ [][\A p \in Callers :
            Connected /\ pc[p] = "get_find" /\ pc'[p] = "idle" =>
                response'.status = 200 /\ response'.body.tax_rate = DefaultTaxRate]_vars

\* C2 witness: a get_settings returned 0.08 after the document was created
\* by one call and updated to 0.08 by a later update_settings.
C2_Witness ==
    /\ Connected
    /\ response.op = "get_settings"
    /\ response.body.tax_rate = 80
    /\ lastPut = 80
    /\ calls = 3
    /\ now = 2

\* The degraded-mode fallback of each endpoint.
Fallback(op, input) ==
    CASE op = "get_settings" -> SettingsOutNoId(DefaultTaxRate)
      [] op = "update_settings" -> SettingsOutNoId(input.tax_rate)
      [] op = "list_products" -> [items |-> SampleOut]
      [] op = "create_product" ->
            ProductOut(TempId, input.name, input.category, input.price, input.ingredients)
      [] op = "delete_product" -> [ok |-> TRUE]

\* C3: whenever the store is unavailable (not configured, or configured and
\* unreachable), every endpoint answers with its degraded-mode fallback and
\* never with an error response.
C3_UnavailableNeverAnError ==
    ~Connected /\ response.op # "none" =>
        /\ response.status = 200
        /\ response.op # "test_database" =>
               response.body = Fallback(response.op, response.input)

\* C4: with no store configured, writes change nothing a later read returns:
\* list_products returns exactly the two sample products (ids "0" and "1",
\* never "temp"), get_settings returns 0.1, create_product returns id "temp",
\* update_settings(t) returns t, and nothing is stored.
C4_DegradedWritesChangeNothing ==
    db = "None" =>
        /\ settings = <<>> /\ product = <<>>
        /\ response.op # "none" => response.status = 200
        /\ response.op = "list_products" =>
               /\ Len(response.body.items) = 2
               /\ response.body.items[1].id = <<"0">> /\ response.body.items[1].name = "Espresso"
               /\ response.body.items[2].id = <<"1">> /\ response.body.items[2].name = "Latte 12oz"
               /\ response.body.items[1].cost = 480 /\ response.body.items[2].cost = 700
               /\ \A i \in 1..Len(response.body.items) : response.body.items[i].id # TempId
        /\ response.op = "get_settings" => response.body.tax_rate = DefaultTaxRate
        /\ response.op = "create_product" => response.body.id = TempId
        /\ response.op = "update_settings" =>
               response.body.tax_rate = response.input.tax_rate

\* C4 witness: list_products answered after an update_settings(0.08) and one
\* more call had completed without a store.
C4_Witness ==
    /\ db = "None"
    /\ lastPut = 80
    /\ calls = 3
    /\ response.op = "list_products"
    /\ Len(response.body.items) = 2

\* A ProductIn with a negative price, unit_cost or quantity.
OutOfRange(payload) ==
    \/ payload.price < 0
    \/ \E i \in 1..Len(payload.ingredients) :
           payload.ingredients[i].unit_cost < 0 \/ payload.ingredients[i].quantity < 0

\* C5: out-of-range input is rejected at the API boundary: create_product
\* with a negative price, unit_cost or quantity and update_settings with a
\* negative tax_rate answer a validation error (422) and store nothing, so
\* every Product returned has cost >= 0.
C5_OutOfRangeRejected ==
    /\ response.op = "create_product" /\ OutOfRange(response.input) =>
           response.status = 422
    /\ response.op = "update_settings" /\ response.input.tax_rate < 0 =>
           response.status = 422
    /\ \A i \in 1..Len(product) : product[i].price >= 0 /\ product[i].cost >= 0
    /\ \A i \in 1..Len(settings) : settings[i].tax_rate >= 0
    /\ response.op = "create_product" /\ response.status = 200 =>
           response.body.cost >= 0
    /\ response.op = "list_products" /\ response.status = 200 =>
           \A i \in 1..Len(response.body.items) : response.body.items[i].cost >= 0

\* Identifier strings that are not the string form of any store reference.
Unparsable == {TempId, ShortHexId, NotHexId}

\* The step in which delete_product(product_id) runs and answers: a call is
\* started, no handler is left in progress by it, and the answer is its own.
DeleteStep(product_id) ==
    /\ calls' = calls + 1
    /\ pc' = pc
    /\ response'.op = "delete_product"
    /\ response'.input = [product_id |-> product_id]

\* C6 (as claimed): delete_product with an identifier that is no store
\* reference answers 400 in every operating mode and removes no product.
C6_InvalidIdIs400InEveryMode ==
    [][\A product_id \in Unparsable :
          DeleteStep(product_id) =>
              response'.status = 400 /\ product' = product]_vars

\* C6 (amended): with a store configured (reachable or not) delete_product
\* with an identifier that is no store reference answers 400; with no store
\* configured it answers 200 {ok: true}; in both cases no product is removed.
C6_InvalidIdIs400WhenConfigured ==
    [][\A product_id \in Unparsable :
          DeleteStep(product_id) =>
              /\ product' = product
              /\ IF db = "None"
                 THEN response'.status = 200 /\ response'.body = [ok |-> TRUE]
                 ELSE response'.status = 400]_vars

\* C6 witness: a delete with an unparsable identifier was answered 400 while
\* the store held a product.
C6_Witness ==
    /\ Connected
    /\ response.op = "delete_product"
    /\ response.input.product_id \in Unparsable
    /\ response.status = 400
    /\ product # <<>>

\* C7: every mutating write refreshes updated_at: each settings document's
\* updated_at is the time of the last write that changed it and its
\* created_at the time of its creation.
C7_UpdatedAtRefreshed ==
    \A i \in 1..Len(settings) :
        /\ settings[i].updated_at = lastWrite[settings[i]._id].changed
        /\ settings[i].created_at = lastWrite[settings[i]._id].created

\* The sum of unit_cost * quantity over the lines, from the first to the last.
RECURSIVE SumOfLines(_)
SumOfLines(lines) ==
    IF lines = <<>> THEN 0
    ELSE SumOfLines(SubSeq(lines, 1, Len(lines) - 1))
         + lines[Len(lines)].unit_cost * lines[Len(lines)].quantity

\* A returned Product whose derived fields are those of (price, lines).
DerivedFrom(out, price, lines) ==
    /\ out.ingredients = lines
    /\ out.cost = SumOfLines(lines)
    /\ out.margin_amount = price - SumOfLines(lines)

\* The step in which list_products runs and answers.
ListStep ==
    /\ calls' = calls + 1
    /\ pc' = pc
    /\ response'.op = "list_products"
    /\ response'.status = 200

\* C8: derived fields are recomputed from the ingredients, never taken from
\* stored data: every Product returned by create_product has the payload's
\* ingredients in order, cost = sum of unit_cost * quantity and margin_amount
\* = price - cost (unclamped); every Product returned by list_products has
\* those of its stored document, whatever cost that document persists; the
\* sample products of degraded list_products likewise.
C8_DerivedFieldsRecomputed ==
    /\ [](response.op = "create_product" /\ response.status = 200 =>
             DerivedFrom(response.body, response.input.price,
                         response.input.ingredients))
    /\ [][ListStep /\ Connected =>
             /\ Len(response'.body.items) = Len(product)
             /\ \A i \in 1..Len(product) :
                    /\ response'.body.items[i].id = OidStr(product[i]._id)
                    /\ DerivedFrom(response'.body.items[i], product[i].price,
                                   product[i].ingredients)]_vars
    /\ [][ListStep /\ db = "None" =>
             /\ Len(response'.body.items) = Len(Sample)
             /\ \A i \in 1..Len(Sample) :
                    DerivedFrom(response'.body.items[i], Sample[i].price,
                                Sample[i].ingredients)]_vars

\* C8 witness: list_products returned two products, the first with a cost
\* (0.48) that differs from the cost its document persists (0.99), the second
\* with a negative margin.
C8_Witness ==
    /\ Connected
    /\ response.op = "list_products"
    /\ Len(response.body.items) = 2
    /\ Len(product) = 2
    /\ response.body.items[1].id = OidStr(product[1]._id)
    /\ product[1].cost = 990
    /\ response.body.items[1].cost = 480
    /\ response.body.items[2].margin_amount < 0
    /\ response.body.items[2].price > 0

\* Every Product of the answer sent last.
Returned ==
    IF response.status # 200 THEN {}
    ELSE IF response.op = "create_product" THEN {response.body}
    ELSE IF response.op = "list_products"
    THEN {response.body.items[i] : i \in 1..Len(response.body.items)}
    ELSE {}

\* C9: margin percent never divides by zero: every returned Product has
\* margin_percent 0 and margin_amount = -cost when price = 0, and
\* margin_percent = (price - cost) / price * 100 when price > 0.
C9_MarginPercentDefined ==
    \A out \in Returned :
        /\ out.margin_percent.den # 0
        /\ out.price = 0 =>
               out.margin_percent.num = 0 /\ out.margin_amount = 0 - out.cost
        /\ out.price > 0 =>
               out.margin_percent.num * out.price
                   = (out.price - out.cost) * 100 * out.margin_percent.den

\* C9 witness: create_product stored and returned a product with price 0 and
\* a cost of 0.5.
C9_Witness ==
    /\ Connected
    /\ response.op = "create_product"
    /\ response.status = 200
    /\ response.body.price = 0
    /\ response.body.cost = 500
    /\ response.body.margin_amount = -500

\* C10: in connected mode delete_product with a well-formed identifier answers
\* {ok: true} whether or not a product has it, removes exactly the products
\* whose identifier it is (at most one) and leaves every other product and
\* every settings document as it was; and no step of any operation removes a
\* settings document.
C10_DeleteRemovesOnlyThatProduct ==
    /\ [][\A product_id \in DeleteIds \ Unparsable :
             DeleteStep(product_id) /\ Connected =>
                 /\ response'.status = 200 /\ response'.body = [ok |-> TRUE]
                 /\ product' = SelectSeq(product, LAMBDA d : OidStr(d._id) # product_id)
                 /\ Len(product') >= Len(product) - 1
                 /\ settings' = settings]_vars
    /\ [][\A i \in 1..Len(settings) :
             \E j \in 1..Len(settings') : settings'[j]._id = settings[i]._id]_vars

\* C10 witness: with a settings document and two products stored, the product
\* created second was deleted by its identifier and the other one remains.
C10_Witness ==
    /\ Connected
    /\ response.op = "delete_product"
    /\ response.status = 200
    /\ response.input.product_id = OidStr(2)
    /\ Len(settings) = 1 /\ settings[1]._id = 1
    /\ product = <<LegacyProduct>>
    /\ oids = 3
    /\ now = 3
====
